---- MODULE Spec2Model ----
(***************************************************************************)
(* A model of EduDraw (src/edudraw.py): the drawing-state record, the      *)
(* push/pop state stack, the ordered transformation log with its forward   *)
(* and inverse replay, the anchor resolution of shapes and the per-frame   *)
(* driver.                                                                 *)
(*                                                                         *)
(* Python lists are objects with identity: a record holds a reference to   *)
(* its applied_transformations list and to its cumulative_scaling_factor   *)
(* list.  The model keeps the two kinds of list in two heaps, tf_lists and *)
(* sf_lists, and the records hold addresses, so that sharing of a list     *)
(* between records is part of the state.                                   *)
(*                                                                         *)
(* Real numbers are exact rationals <<n, d>> (d > 0, lowest terms); sines  *)
(* and cosines are exact on the multiples of 90 degrees, the only angles   *)
(* the model uses.                                                         *)
(***************************************************************************)
EXTENDS Integers, Sequences, FiniteSets, TLC

VARIABLES data, data_stack, tf_lists, sf_lists, raster,
          reset_after_loop, quitted, flag, frame_count, pc, nops, called, probe,
          null_mode, mpc, events, controls, batch, ran, error, result

\* the main thread: the mode of the run, the position of the thread after
\* setup(), the events of the batch still to dispatch, the registered handlers
loopvars == <<null_mode, mpc, events, controls, batch, ran>>

vars == <<data, data_stack, tf_lists, sf_lists, raster,
          reset_after_loop, quitted, flag, frame_count, pc, nops, called, probe,
          loopvars, error, result>>

----------------------------------------------------------------------------
(* Bounds *)

\* API calls made by the user's callbacks in one run
MaxOps == 3
\* frames drawn in one run
MaxFrames == 2
\* events in one batch of pygame.event.get()
MaxBatch == 2
MaxResolutions == 2
MaxDraws == 1

----------------------------------------------------------------------------
(* Exact rational arithmetic *)

Abs(i) == IF i < 0 THEN -i ELSE i

RECURSIVE GCD(_, _)
GCD(a, b) == IF b = 0 THEN a ELSE GCD(b, a % b)

Norm(n, d) ==
    LET g == GCD(Abs(n), Abs(d))
        s == IF d < 0 THEN -1 ELSE 1
    IN  <<(s * n) \div g, (s * d) \div g>>

R(i) == <<i, 1>>
RAdd(a, b) == Norm(a[1] * b[2] + b[1] * a[2], a[2] * b[2])
RSub(a, b) == Norm(a[1] * b[2] - b[1] * a[2], a[2] * b[2])
RMul(a, b) == Norm(a[1] * b[1], a[2] * b[2])
RDiv(a, b) == Norm(a[1] * b[2], a[2] * b[1])
RNeg(a) == <<-a[1], a[2]>>
RHalf(a) == RDiv(a, R(2))
\* int(): truncation towards zero
Trunc(a) == IF a[1] >= 0 THEN a[1] \div a[2] ELSE -((-a[1]) \div a[2])

\* math.sin / math.cos of math.radians(angle), angle a multiple of 90
Sin(angle) ==
    LET m == angle % 360
    IN  IF m = 90 THEN R(1) ELSE IF m = 270 THEN R(-1) ELSE R(0)
Cos(angle) ==
    LET m == angle % 360
    IN  IF m = 0 THEN R(1) ELSE IF m = 180 THEN R(-1) ELSE R(0)

----------------------------------------------------------------------------
(* _SimulationData *)

TOP_LEFT == 0
CENTER == 1
draw_mode == [n \in {"TOP_LEFT", "CENTER"} |-> IF n = "TOP_LEFT" THEN TOP_LEFT ELSE CENTER]

ROT == 0
TRA == 1
SCL == 2

BLACK == <<0, 0, 0>>
GREY == <<125, 125, 125>>
RED == <<255, 0, 0>>

\* the record _SimulationData() constructs; its two lists are new objects
\* at the addresses tf and sf
_SimulationData(tf, sf) ==
    [ applied_transformations    |-> tf,
      flag_has_rotation          |-> FALSE,
      cumulative_rotation_angle  |-> 0,
      flag_has_scaling           |-> FALSE,
      cumulative_scaling_factor  |-> sf,
      account_for_transformations |-> FALSE,
      current_rect_mode          |-> draw_mode["TOP_LEFT"],
      current_circle_mode        |-> draw_mode["CENTER"],
      current_stroke_color       |-> BLACK,
      current_fill_color         |-> BLACK,
      current_background_color   |-> GREY,
      current_stroke_weight      |-> 1,
      fill_state                 |-> TRUE,
      stroke_state               |-> TRUE,
      current_text_font          |-> "default" ]

\* the value of a new cumulative_scaling_factor list, [1, 1]
UnitScale == <<R(1), R(1)>>

----------------------------------------------------------------------------
(* The heaps of list objects *)

\* the address of a newly created list object
Fresh(h) ==
    CHOOSE a \in 1..(Cardinality(DOMAIN h) + 1) :
        a \notin DOMAIN h /\ \A b \in 1..(a - 1) : b \in DOMAIN h

Alloc(h, a, v) == [x \in DOMAIN h \cup {a} |-> IF x = a THEN v ELSE h[x]]

LiveTf(d, st) ==
    {d.applied_transformations} \cup {st[i].applied_transformations : i \in DOMAIN st}
LiveSf(d, st) ==
    {d.cumulative_scaling_factor} \cup {st[i].cumulative_scaling_factor : i \in DOMAIN st}

\* a list no record refers to any more is reclaimed
Collect(h, live) == [a \in live |-> h[a]]

\* the new base record, state stack and heaps after an operation
Store(d, st, tf, sf) ==
    /\ data' = d
    /\ data_stack' = st
    /\ tf_lists' = Collect(tf, LiveTf(d, st))
    /\ sf_lists' = Collect(sf, LiveSf(d, st))

\* the record the operations act on
_get_data_object ==
    IF data_stack = <<>> THEN data ELSE data_stack[Len(data_stack)]

\* the operation changed the current record to rec and the heaps to tf, sf
Update(rec, tf, sf) ==
    IF data_stack = <<>>
    THEN Store(rec, data_stack, tf, sf)
    ELSE Store(data, [data_stack EXCEPT ![Len(data_stack)] = rec], tf, sf)

\* the transformation sequence / scale factor of record rec
TfOf(rec) == tf_lists[rec.applied_transformations]
SfOf(rec) == sf_lists[rec.cumulative_scaling_factor]

----------------------------------------------------------------------------
(* Inputs of the calls *)

Colors == {RED}
Weights == {3}
ModeNames == {"TOP_LEFT", "CENTER", "CORNER"}
Angles == {90, -90}
Scales == {<<R(2), R(3)>>, <<R(0), R(5)>>, <<R(4), R(1)>>}
Translations == {<<10, 0>>, <<50, 50>>}
Points == {<<0, 0>>, <<10, 0>>}
Boxes == {<<10, 10, 4, 2>>}
Radii == {2}
Sides == {4}
TextStrings == {"", "ab"}
Polygons == {<< <<0, 0>>, <<10, 0>>, <<10, 10>> >>}
ImageSizes == {<<4, 2>>, <<0, 2>>}
OptionalX == {<<>>, <<10>>}
OptionalY == {<<>>, <<-3>>}
OptionalWidths == {<<>>, <<0>>, <<6>>}
OptionalHeights == {<<>>, <<3>>}
EventTypes == {"QUIT", "KEYDOWN", "MOUSEWHEEL"}
ControlSets == {{"key_down"}, {"key_down", "mouse_wheel"}}

ProbePoints == {<<0, 0>>, <<3, -7>>}
ProbeSizes == {<<10, 10>>, <<3, 7>>}
MousePositions == {<<0, 0>>, <<7, 5>>}

\* no direct call of the coordinate functions has been made
NoProbe == [stage |-> "idle", p |-> <<R(0), R(0)>>, f |-> <<R(0), R(0)>>,
            b |-> <<R(0), R(0)>>, log |-> <<>>]

----------------------------------------------------------------------------
(* Initial state: EduDraw.__init__ *)

\* no handler is registered: every attribute of _ControlClass is None
HandlerNames == {"key_down", "key_up", "mouse_motion", "mouse_button_up",
                 "mouse_button_down", "mouse_wheel"}
NoControls == [h \in HandlerNames |-> FALSE]

InitMode(mode) ==
    /\ null_mode = mode
    /\ batch = <<>>
    /\ ran = <<>>
    /\ mpc = "none"
    /\ events = <<>>
    /\ controls = NoControls
    /\ error = "none"
    /\ result = <<>>
    /\ data = _SimulationData(1, 1)
    /\ data_stack = <<>>
    /\ tf_lists = [a \in {1} |-> <<>>]
    /\ sf_lists = [a \in {1} |-> UnitScale]
    /\ raster = <<"none">>
    /\ reset_after_loop = TRUE
    /\ quitted = FALSE
    /\ flag = FALSE
    /\ frame_count = 0
    /\ pc = "init"
    /\ nops = 0
    /\ called = <<"none">>
    /\ probe = NoProbe

\* EduDraw(width, height): null_mode has its default, False
Init == InitMode(FALSE)

\* EduDraw(width, height, null_mode) in either mode
InitEitherMode == \E mode \in BOOLEAN : InitMode(mode)

----------------------------------------------------------------------------
(* Calls made by the user's setup() and draw() *)

\* the call c of the API, made from inside setup(), draw() or a handler; called is the
\* last call made, with its arguments, and nops the number of calls so far
UserCall(c) ==
    /\ pc \in {"setup", "draw"} \/ mpc = "handler"
    /\ nops < MaxOps
    /\ probe.stage \in {"idle", "resolved"}
    /\ nops' = nops + 1
    /\ called' = c
    /\ UNCHANGED <<pc, frame_count, flag, probe>>

\* a call that changes the state records only
StateCall(c) ==
    /\ UserCall(c)
    /\ UNCHANGED <<raster, reset_after_loop, quitted, loopvars, error, result>>

\* a call that returns without effect and without an error
ReturnSilently(c) ==
    /\ StateCall(c)
    /\ UNCHANGED <<data, data_stack, tf_lists, sf_lists>>
\* a call in which the lookup data.draw_mode[mode] raises KeyError: the
\* exception leaves the call before the assignment and, not being caught by the
\* callback, ends setup() and with it start(), or the timer thread in draw(),
\* or the event loop in a handler
RaiseKeyError(c) ==
    /\ pc \in {"setup", "draw"} \/ mpc = "handler"
    /\ nops < MaxOps
    /\ probe.stage \in {"idle", "resolved"}
    /\ nops' = nops + 1
    /\ called' = c
    /\ error' = "KeyError"
    /\ \/ pc \in {"setup", "draw"} /\ pc' = "died" /\ UNCHANGED mpc
       \/ mpc = "handler" /\ mpc' = "died" /\ UNCHANGED pc
    /\ UNCHANGED <<data, data_stack, tf_lists, sf_lists, raster, reset_after_loop,
                   quitted, flag, frame_count, probe, null_mode, events, controls,
                   batch, ran,
                   result>>

rect_mode_sets_both(mode) ==
    IF mode \in DOMAIN draw_mode
    THEN /\ StateCall(<<"rect_mode", mode>>)
         /\ Update([_get_data_object EXCEPT !.current_rect_mode = draw_mode[mode],
                                            !.current_circle_mode = draw_mode[mode]],
                   tf_lists, sf_lists)
    ELSE RaiseKeyError(<<"rect_mode", mode>>)
rect_mode(mode) ==
    IF mode \in DOMAIN draw_mode
    THEN /\ StateCall(<<"rect_mode", mode>>)
         /\ Update([_get_data_object EXCEPT !.current_rect_mode = draw_mode[mode]],
                   tf_lists, sf_lists)
    ELSE RaiseKeyError(<<"rect_mode", mode>>)

circle_mode(mode) ==
    IF mode \in DOMAIN draw_mode
    THEN /\ StateCall(<<"circle_mode", mode>>)
         /\ Update([_get_data_object EXCEPT !.current_circle_mode = draw_mode[mode]],
                   tf_lists, sf_lists)
    ELSE RaiseKeyError(<<"circle_mode", mode>>)

fill(color) ==
    /\ StateCall(<<"fill", color>>)
    /\ Update([_get_data_object EXCEPT !.fill_state = TRUE,
                                       !.current_fill_color = color],
              tf_lists, sf_lists)

no_fill ==
    /\ StateCall(<<"no_fill">>)
    /\ Update([_get_data_object EXCEPT !.fill_state = FALSE], tf_lists, sf_lists)

stroke(color) ==
    /\ StateCall(<<"stroke", color>>)
    /\ Update([_get_data_object EXCEPT !.stroke_state = TRUE,
                                       !.current_stroke_color = color],
              tf_lists, sf_lists)

no_stroke ==
    /\ StateCall(<<"no_stroke">>)
    /\ Update([_get_data_object EXCEPT !.stroke_state = FALSE], tf_lists, sf_lists)

stroke_weight(new_weight) ==
    /\ StateCall(<<"stroke_weight", new_weight>>)
    /\ Update([_get_data_object EXCEPT !.current_stroke_weight = new_weight],
              tf_lists, sf_lists)

set_account_for_transformations(state) ==
    /\ StateCall(<<"set_account_for_transformations", state>>)
    /\ Update([_get_data_object EXCEPT !.account_for_transformations = state],
              tf_lists, sf_lists)

----------------------------------------------------------------------------
(* push / pop *)

\* the record push() appends: a shallow copy of the current record whose
\* applied_transformations is the new list at address tf
PushedRecordShared(previous_data, tf) == previous_data
PushedRecord(previous_data, tf) ==
    [previous_data EXCEPT !.applied_transformations = tf]

push ==
    /\ StateCall(<<"push">>)
    /\ LET previous_data == _get_data_object
           tf == Fresh(tf_lists)
       IN  Store(data,
                 Append(data_stack, PushedRecord(previous_data, tf)),
                 Alloc(tf_lists, tf, TfOf(previous_data)),
                 sf_lists)

\* the state stack pop() leaves
PoppedStackKeepsLast(st) == IF Len(st) > 1 THEN SubSeq(st, 1, Len(st) - 1) ELSE st
PoppedStack(st) == IF Len(st) # 0 THEN SubSeq(st, 1, Len(st) - 1) ELSE st

pop ==
    /\ StateCall(<<"pop">>)
    /\ Store(data, PoppedStack(data_stack), tf_lists, sf_lists)

----------------------------------------------------------------------------
(* Transformations *)

rotate(angle) ==
    /\ StateCall(<<"rotate", angle>>)
    /\ LET d == _get_data_object
       IN  Update([d EXCEPT !.flag_has_rotation = TRUE,
                            !.cumulative_rotation_angle = @ + angle],
                  [tf_lists EXCEPT ![d.applied_transformations] =
                                       Append(@, <<ROT, angle>>)],
                  sf_lists)

\* the early return of scale()
ScaleRejectedBoth(scale_x, scale_y) == scale_x = R(0) /\ scale_y = R(0)
ScaleRejected(scale_x, scale_y) == scale_x = R(0) \/ scale_y = R(0)

scale(scale_x, scale_y) ==
    /\ StateCall(<<"scale", scale_x, scale_y>>)
    /\ IF ScaleRejected(scale_x, scale_y)
       THEN UNCHANGED <<data, data_stack, tf_lists, sf_lists>>
       ELSE LET d == _get_data_object
            IN  Update([d EXCEPT !.flag_has_scaling = TRUE],
                       [tf_lists EXCEPT ![d.applied_transformations] =
                                            Append(@, <<SCL, <<scale_x, scale_y>>>>)],
                       [sf_lists EXCEPT ![d.cumulative_scaling_factor] =
                                            <<RMul(@[1], scale_x), RMul(@[2], scale_y)>>])

translate(translate_x, translate_y) ==
    /\ StateCall(<<"translate", translate_x, translate_y>>)
    /\ LET d == _get_data_object
       IN  Update(d,
                  [tf_lists EXCEPT ![d.applied_transformations] =
                                       Append(@, <<TRA, <<translate_x, translate_y>>>>)],
                  sf_lists)

reset_transformations_keeps_scale ==
    /\ StateCall(<<"reset_transformations">>)
    /\ LET d == _get_data_object
           tf == Fresh(tf_lists)
       IN  Update([d EXCEPT !.applied_transformations = tf,
                            !.flag_has_rotation = FALSE,
                            !.flag_has_scaling = FALSE,
                            !.cumulative_rotation_angle = 0],
                  Alloc(tf_lists, tf, <<>>),
                  sf_lists)
reset_transformations ==
    /\ StateCall(<<"reset_transformations">>)
    /\ LET d == _get_data_object
           tf == Fresh(tf_lists)
           sf == Fresh(sf_lists)
       IN  Update([d EXCEPT !.applied_transformations = tf,
                            !.flag_has_rotation = FALSE,
                            !.flag_has_scaling = FALSE,
                            !.cumulative_rotation_angle = 0,
                            !.cumulative_scaling_factor = sf],
                  Alloc(tf_lists, tf, <<>>),
                  Alloc(sf_lists, sf, UnitScale))

\* the list _remove_transformation builds
_remove_transformation_keeps_only(tfs, transformation) ==
    SelectSeq(tfs, LAMBDA t : t[1] = transformation)
_remove_transformation(tfs, transformation) ==
    SelectSeq(tfs, LAMBDA t : t[1] # transformation)

reset_scaling ==
    /\ StateCall(<<"reset_scaling">>)
    /\ LET d == _get_data_object
           tf == Fresh(tf_lists)
           sf == Fresh(sf_lists)
       IN  Update([d EXCEPT !.applied_transformations = tf,
                            !.cumulative_scaling_factor = sf,
                            !.flag_has_scaling = FALSE],
                  Alloc(tf_lists, tf, _remove_transformation(TfOf(d), SCL)),
                  Alloc(sf_lists, sf, UnitScale))

reset_translation ==
    /\ StateCall(<<"reset_translation">>)
    /\ LET d == _get_data_object
           tf == Fresh(tf_lists)
       IN  Update([d EXCEPT !.applied_transformations = tf],
                  Alloc(tf_lists, tf, _remove_transformation(TfOf(d), TRA)),
                  sf_lists)

reset_rotation ==
    /\ StateCall(<<"reset_rotation">>)
    /\ LET d == _get_data_object
           tf == Fresh(tf_lists)
       IN  Update([d EXCEPT !.applied_transformations = tf,
                            !.flag_has_rotation = FALSE,
                            !.cumulative_rotation_angle = 0],
                  Alloc(tf_lists, tf, _remove_transformation(TfOf(d), ROT)),
                  sf_lists)

----------------------------------------------------------------------------
(* Coordinate functions *)

\* one iteration of the loop of _apply_transformations_coords
ApplyStep(transformation, final, no_rotation) ==
    IF transformation[1] = SCL
    THEN <<RMul(final[1], transformation[2][1]), RMul(final[2], transformation[2][2])>>
    ELSE IF transformation[1] = TRA
    THEN <<RAdd(final[1], R(transformation[2][1])), RAdd(final[2], R(transformation[2][2]))>>
    ELSE IF transformation[1] = ROT /\ ~no_rotation
    THEN LET angle_sin == Sin(transformation[2])
             angle_cos == Cos(transformation[2])
         IN  <<RSub(RMul(final[1], angle_cos), RMul(final[2], angle_sin)),
               RAdd(RMul(final[1], angle_sin), RMul(final[2], angle_cos))>>
    ELSE final

RECURSIVE ApplyLoop(_, _, _, _)
ApplyLoop(tfs, i, final, no_rotation) ==
    IF i > Len(tfs) THEN final
    ELSE ApplyLoop(tfs, i + 1, ApplyStep(tfs[i], final, no_rotation), no_rotation)

Reversed(tfs) == [i \in 1..Len(tfs) |-> tfs[Len(tfs) + 1 - i]]

\* _apply_transformations_coords on the sequence tfs of the current record
_apply_transformations_coords_reversed(tfs, x, y, no_rotation) ==
    ApplyLoop(Reversed(tfs), 1, <<x, y>>, no_rotation)
_apply_transformations_coords(tfs, x, y, no_rotation) ==
    ApplyLoop(tfs, 1, <<x, y>>, no_rotation)

RECURSIVE LengthLoop(_, _, _)
LengthLoop(tfs, i, final) ==
    IF i > Len(tfs) THEN final
    ELSE LengthLoop(tfs, i + 1,
                    IF tfs[i][1] = SCL
                    THEN <<RMul(final[1], tfs[i][2][1]), RMul(final[2], tfs[i][2][2])>>
                    ELSE final)

_apply_transformations_length_as_coords(tfs, width, height) ==
    _apply_transformations_coords(tfs, width, height, FALSE)
_apply_transformations_length(tfs, width, height) ==
    LengthLoop(tfs, 1, <<width, height>>)

\* one iteration of the loop of _undo_transformations_coords
UndoStep(transformation, final) ==
    IF transformation[1] = SCL
    THEN <<RDiv(final[1], transformation[2][1]), RDiv(final[2], transformation[2][2])>>
    ELSE IF transformation[1] = TRA
    THEN <<RSub(final[1], R(transformation[2][1])), RSub(final[2], R(transformation[2][2]))>>
    ELSE LET angle_sin == Sin(transformation[2])
             angle_cos == Cos(transformation[2])
         IN  <<RAdd(RMul(final[1], angle_cos), RMul(final[2], angle_sin)),
               RAdd(RMul(RNeg(final[1]), angle_sin), RMul(final[2], angle_cos))>>

RECURSIVE UndoLoop(_, _, _)
UndoLoop(tfs, i, final) ==
    IF i > Len(tfs) THEN final
    ELSE UndoLoop(tfs, i + 1, UndoStep(tfs[i], final))

\* _undo_transformations_coords on the sequence tfs of the current record
_undo_transformations_coords_in_order(tfs, x, y) == UndoLoop(tfs, 1, <<x, y>>)
_undo_transformations_coords(tfs, x, y) == UndoLoop(Reversed(tfs), 1, <<x, y>>)

\* the value mouse_pos() returns when pygame.mouse.get_pos() is original_pos
MousePosAlwaysUndone(mode, d, tfs, original_pos) ==
    IF mode THEN <<0, 0>>
    ELSE LET final_pos == _undo_transformations_coords(tfs, R(original_pos[1]),
                                                       R(original_pos[2]))
         IN  <<Trunc(final_pos[1]), Trunc(final_pos[2])>>
MousePos(mode, d, tfs, original_pos) ==
    IF mode THEN <<0, 0>>
    ELSE IF ~d.account_for_transformations THEN original_pos
    ELSE LET final_pos == _undo_transformations_coords(tfs, R(original_pos[1]),
                                                       R(original_pos[2]))
         IN  <<Trunc(final_pos[1]), Trunc(final_pos[2])>>

mouse_pos(original_pos) ==
    /\ UserCall(<<"mouse_pos", original_pos[1], original_pos[2]>>)
    /\ result' = MousePos(null_mode, _get_data_object, TfOf(_get_data_object),
                          original_pos)
    /\ UNCHANGED <<data, data_stack, tf_lists, sf_lists, raster, reset_after_loop,
                   quitted, loopvars, error>>

----------------------------------------------------------------------------
(* Anchor resolution and style *)

_get_rect_box_inverted_subtracts(d, x, y, w, h, inverted) ==
    IF d.current_rect_mode = draw_mode["TOP_LEFT"]
    THEN IF inverted THEN <<RSub(x, RHalf(w)), RSub(y, RHalf(h))>> ELSE <<x, y>>
    ELSE IF inverted THEN <<x, y>> ELSE <<RSub(x, RHalf(w)), RSub(y, RHalf(h))>>
_get_rect_box(d, x, y, w, h, inverted) ==
    IF d.current_rect_mode = draw_mode["TOP_LEFT"]
    THEN IF inverted THEN <<RAdd(x, RHalf(w)), RAdd(y, RHalf(h))>> ELSE <<x, y>>
    ELSE IF inverted THEN <<x, y>> ELSE <<RSub(x, RHalf(w)), RSub(y, RHalf(h))>>

_get_circle_box_by_rect_mode(d, x, y, w, h, inverted) ==
    IF d.current_rect_mode = draw_mode["TOP_LEFT"]
    THEN IF inverted THEN <<RAdd(x, RHalf(w)), RAdd(y, RHalf(h))>> ELSE <<x, y>>
    ELSE IF inverted THEN <<x, y>> ELSE <<RSub(x, RHalf(w)), RSub(y, RHalf(h))>>
_get_circle_box(d, x, y, w, h, inverted) ==
    IF d.current_circle_mode = draw_mode["TOP_LEFT"]
    THEN IF inverted THEN <<RAdd(x, RHalf(w)), RAdd(y, RHalf(h))>> ELSE <<x, y>>
    ELSE IF inverted THEN <<x, y>> ELSE <<RSub(x, RHalf(w)), RSub(y, RHalf(h))>>

\* Python's None, for a colour that is switched off
None == <<>>

\* <<stroke_color, fill_color, stroke_weight>>
_get_stroke_fill_and_weight(d) ==
    << IF d.stroke_state THEN d.current_stroke_color ELSE None,
       IF d.fill_state THEN d.current_fill_color ELSE None,
       d.current_stroke_weight >>

----------------------------------------------------------------------------
(* Drawing primitives: raster is the last command issued to the rasterizer *)

\* a call that draws and leaves the state records alone
DrawCall(c) ==
    /\ UserCall(c)
    /\ UNCHANGED <<data, data_stack, tf_lists, sf_lists, reset_after_loop, quitted,
                   loopvars, error, result>>

point(x, y) ==
    /\ DrawCall(<<"point", x, y>>)
    /\ LET d == _get_data_object
       IN  IF ~d.stroke_state
           THEN UNCHANGED raster
           ELSE raster' = <<"point",
                            _apply_transformations_coords(TfOf(d), R(x), R(y), FALSE),
                            d.current_stroke_color>>

\* the size of an image of size <<w, h>> after rotate(angle, expand=True),
\* angle a multiple of 90
RotatedSize(w, h, angle) == IF angle % 180 = 0 THEN <<w, h>> ELSE <<h, w>>

\* the command ellipse(x, y, width, height) issues
EllipseIssued(x, y, width0, height0) ==
    LET d == _get_data_object
        len == _apply_transformations_length(TfOf(d), width0, height0)
        width == len[1]
        height == len[2]
        box == _get_circle_box(d, x, y, width, height, TRUE)
        pos == _apply_transformations_coords(TfOf(d), box[1], box[2], FALSE)
        sfw == _get_stroke_fill_and_weight(d)
    IN  IF width = height \/ d.cumulative_rotation_angle = 0
        THEN <<"ellipse", pos, <<RAdd(pos[1], width), RAdd(pos[2], height)>>,
               sfw[2], sfw[1], sfw[3]>>
        ELSE LET new == RotatedSize(Trunc(width) + 1, Trunc(height) + 1,
                                    -d.cumulative_rotation_angle)
             IN  <<"paste", new,
                   <<Trunc(RSub(pos[1], RHalf(R(new[1])))),
                     Trunc(RSub(pos[2], RHalf(R(new[2]))))>>>>

ellipse(x, y, width, height) ==
    /\ DrawCall(<<"ellipse", x, y, width, height>>)
    /\ raster' = EllipseIssued(R(x), R(y), R(width), R(height))

circle(x, y, radius) ==
    /\ DrawCall(<<"circle", x, y, radius>>)
    /\ raster' = EllipseIssued(R(x), R(y), R(radius * 2), R(radius * 2))

\* a call of a shape primitive; one may follow the last state call of a run
ShapeCall(c) ==
    /\ pc \in {"setup", "draw"} \/ mpc = "handler"
    /\ nops < MaxOps + MaxDraws
    /\ probe.stage \in {"idle", "resolved"}
    /\ nops' = nops + 1
    /\ called' = c
    /\ UNCHANGED <<pc, frame_count, flag, probe, data, data_stack, tf_lists, sf_lists,
                   reset_after_loop, quitted, loopvars, error, result>>

\* the command polygon(points) issues for the record d with sequence tfs
PolygonIssued(d, tfs, points) ==
    LET sfw == _get_stroke_fill_and_weight(d)
    IN  <<"polygon",
          [i \in 1..Len(points) |->
              _apply_transformations_coords(tfs, points[i][1], points[i][2], FALSE)],
          sfw[2], sfw[1], sfw[3]>>

polygon(points) ==
    /\ ShapeCall(<<"polygon", points>>)
    /\ raster' = PolygonIssued(_get_data_object, TfOf(_get_data_object),
                               [i \in 1..Len(points) |->
                                   <<R(points[i][1]), R(points[i][2])>>])

\* the command rect(x, y, width, height) issues
RectIssued(x, y, width, height) ==
    LET d == _get_data_object
        tfs == TfOf(d)
        pos == _get_rect_box(d, x, y, width, height, FALSE)
        sfw == _get_stroke_fill_and_weight(d)
    IN  IF d.cumulative_rotation_angle # 0
        THEN PolygonIssued(d, tfs,
                 << <<pos[1], pos[2]>>,
                    <<RAdd(pos[1], width), pos[2]>>,
                    <<RAdd(pos[1], width), RAdd(pos[2], height)>>,
                    <<pos[1], RAdd(pos[2], height)>> >>)
        ELSE LET xy == _apply_transformations_coords(tfs, pos[1], pos[2], TRUE)
                 len == _apply_transformations_length(tfs, width, height)
             IN  <<"rectangle", xy, <<RAdd(xy[1], len[1]), RAdd(xy[2], len[2])>>,
                   sfw[2], sfw[1], sfw[3]>>

rect(x, y, width, height) ==
    /\ ShapeCall(<<"rect", x, y, width, height>>)
    /\ raster' = RectIssued(R(x), R(y), R(width), R(height))

square(x, y, side_size) ==
    /\ ShapeCall(<<"square", x, y, side_size>>)
    /\ raster' = RectIssued(R(x), R(y), R(side_size), R(side_size))

line(x1, y1, x2, y2) ==
    /\ ShapeCall(<<"line", x1, y1, x2, y2>>)
    /\ LET d == _get_data_object
           sfw == _get_stroke_fill_and_weight(d)
       IN  raster' = <<"line",
                       _apply_transformations_coords(TfOf(d), R(x1), R(y1), FALSE),
                       _apply_transformations_coords(TfOf(d), R(x2), R(y2), FALSE),
                       sfw[1], sfw[3]>>

triangle(x1, y1, x2, y2, x3, y3) ==
    /\ ShapeCall(<<"triangle", x1, y1, x2, y2, x3, y3>>)
    /\ LET d == _get_data_object
           sfw == _get_stroke_fill_and_weight(d)
       IN  raster' = <<"polygon",
                       << _apply_transformations_coords(TfOf(d), R(x1), R(y1), FALSE),
                          _apply_transformations_coords(TfOf(d), R(x2), R(y2), FALSE),
                          _apply_transformations_coords(TfOf(d), R(x3), R(y3), FALSE) >>,
                       sfw[2], sfw[1], sfw[3]>>

\* a call that draws and may write to the current record
ImageCall(c) ==
    /\ UserCall(c)
    /\ UNCHANGED <<reset_after_loop, quitted, loopvars, error, result>>

\* the early return of image() and image_sized()
ZeroSizeBoth(target_width, target_height) ==
    target_width = R(0) /\ target_height = R(0)
ZeroSize(target_width, target_height) ==
    target_width = R(0) \/ target_height = R(0)

RAbs(a) == IF a[1] < 0 THEN RNeg(a) ELSE a

\* the paste at the end of image() and image_sized(): the image of size
\* <<width, height>>, resized to the target size and rotated, is pasted at the
\* position resolved with the rect mode of d. The content of the image (and so
\* its mirroring and flipping) is not represented.
ImagePasted(d, tfs, width, height, x, y, target_width, target_height) ==
    LET has_rotation == d.cumulative_rotation_angle # 0
        real == RotatedSize(Trunc(RAbs(target_width)), Trunc(RAbs(target_height)),
                            -d.cumulative_rotation_angle)
        xy == _get_rect_box(d, R(x), R(y), R(width), R(height), has_rotation)
        pos == _apply_transformations_coords(tfs, xy[1], xy[2], FALSE)
    IN  <<"paste", real,
          IF ~has_rotation
          THEN <<Trunc(pos[1]), Trunc(pos[2])>>
          ELSE <<Trunc(RSub(pos[1], R(real[1] \div 2))),
                 Trunc(RSub(pos[2], R(real[2] \div 2)))>>>>

\* image(img, x, y, x2, y2) for an image of size img_size; an optional
\* argument is None or <<value>>
image(img_size, x, y, x2, y2) ==
    /\ ImageCall(<<"image", img_size, x, y, x2, y2>>)
    /\ LET d == _get_data_object
           tfs == TfOf(d)
           temp_draw_mode == d.current_rect_mode
           unsized == x2 = None \/ y2 = None
           top_left == IF unsized THEN d
                       ELSE [d EXCEPT !.current_rect_mode = draw_mode["TOP_LEFT"]]
           target == IF unsized
                     THEN _apply_transformations_length(tfs, R(img_size[1]),
                                                        R(img_size[2]))
                     ELSE _apply_transformations_length(tfs, R(x2[1] - x),
                                                        R(y2[1] - y))
           x_low == IF ~unsized /\ x2[1] < x THEN x2[1] ELSE x
           y_low == IF ~unsized /\ y2[1] < y THEN y2[1] ELSE y
       IN  IF ZeroSize(target[1], target[2])
           THEN /\ UNCHANGED raster
                /\ Update(top_left, tf_lists, sf_lists)
           ELSE /\ raster' = ImagePasted(top_left, tfs, img_size[1], img_size[2],
                                          x_low, y_low, target[1], target[2])
                /\ Update([top_left EXCEPT !.current_rect_mode = temp_draw_mode],
                          tf_lists, sf_lists)

image_sized(img_size, x, y, width, height) ==
    /\ ImageCall(<<"image_sized", img_size, x, y, width, height>>)
    /\ LET d == _get_data_object
           tfs == TfOf(d)
           w == IF width = None THEN img_size[1] ELSE width[1]
           h == IF height = None THEN img_size[2] ELSE height[1]
           target == _apply_transformations_length(tfs, R(w), R(h))
       IN  /\ IF ZeroSize(target[1], target[2])
              THEN UNCHANGED raster
              ELSE raster' = ImagePasted(d, tfs, w, h, x, y, target[1], target[2])
           /\ UNCHANGED <<data, data_stack, tf_lists, sf_lists>>

\* textlength(string, font) and textlength(string, font, direction='ttb') of
\* the rasterizer, for the strings of TextStrings
TextSize(string) == IF string = "" THEN <<0, 0>> ELSE <<12, 11>>

\* text(string, x, y): written directly when the record has no rotation and no
\* scaling, otherwise drawn into a new image that image() pastes
text(string, x, y) ==
    /\ ImageCall(<<"text", string, x, y>>)
    /\ LET d == _get_data_object
           tfs == TfOf(d)
           sfw == _get_stroke_fill_and_weight(d)
           size == TextSize(string)
       IN  IF string = ""
           THEN UNCHANGED raster
           ELSE IF d.cumulative_rotation_angle = 0 /\ SfOf(d) = UnitScale
           THEN LET xy == _apply_transformations_coords(tfs, R(x), R(y), FALSE)
                    new == _get_rect_box(d, xy[1], xy[2], R(size[1]), R(size[2]), FALSE)
                IN  raster' = <<"text", new, string, sfw[1]>>
           ELSE LET new_image == <<size[1] + 1, size[2] + 1>>
                    target == _apply_transformations_length(tfs, R(new_image[1]),
                                                            R(new_image[2]))
                IN  raster' = ImagePasted(d, tfs, new_image[1], new_image[2], x, y,
                                          target[1], target[2])
    /\ UNCHANGED <<data, data_stack, tf_lists, sf_lists>>

----------------------------------------------------------------------------
(* The frame driver *)

\* start(): the callbacks are stored and setup() is called
start ==
    /\ pc = "init"
    /\ pc' = "setup"
    /\ UNCHANGED <<data, data_stack, tf_lists, sf_lists, raster, reset_after_loop,
                   quitted, flag, frame_count, nops, called, probe,
                   loopvars, error, result>>

\* setup() returns and _proto_draw starts the timer thread; in null mode it
\* then returns, otherwise the main thread enters the event loop
setup_return ==
    /\ pc = "setup"
    /\ probe = NoProbe
    /\ pc' = "loop"
    /\ mpc' = IF null_mode THEN "exited" ELSE "poll"
    /\ UNCHANGED <<data, data_stack, tf_lists, sf_lists, raster, reset_after_loop,
                   quitted, flag, frame_count, nops, called, probe,
                   null_mode, events, controls, batch, ran, error, result>>

\* the timer thread, at position p, is at the top of the loop of repeat: it
\* calls func() itself, so it is not back there before func() has returned
AtLoopTopOrInFunc(p) == p \in {"loop", "draw"}
AtLoopTop(p) == p = "loop"

\* the test of the quit flag at the start of timer_tick
TickNeverQuits(q) == FALSE
TickSeesQuit(q) == q

\* one iteration of _RepeatTimer.repeat, up to the call of draw() in timer_tick
repeat_counts_before_test ==
    /\ AtLoopTop(pc)
    /\ IF flag
       THEN pc' = "stopped" /\ UNCHANGED <<flag, frame_count>>
       ELSE /\ frame_count < MaxFrames
            /\ frame_count' = frame_count + 1
            /\ IF TickSeesQuit(quitted)
               THEN flag' = TRUE /\ UNCHANGED pc
               ELSE pc' = "draw" /\ UNCHANGED flag
    /\ UNCHANGED <<data, data_stack, tf_lists, sf_lists, raster, reset_after_loop,
                   quitted, nops, called, probe, loopvars, error, result>>
repeat ==
    /\ AtLoopTop(pc)
    /\ IF flag
       THEN pc' = "stopped" /\ UNCHANGED <<flag, frame_count>>
       ELSE IF TickSeesQuit(quitted)
       THEN flag' = TRUE /\ UNCHANGED <<pc, frame_count>>
       ELSE /\ frame_count < MaxFrames
            /\ frame_count' = frame_count + 1
            /\ pc' = "draw"
            /\ UNCHANGED flag
    /\ UNCHANGED <<data, data_stack, tf_lists, sf_lists, raster, reset_after_loop,
                   quitted, nops, called, probe, loopvars, error, result>>

\* the base record after _reset_variables
_reset_variables == _SimulationData(Fresh(tf_lists), Fresh(sf_lists))

\* draw() returns: the rest of timer_tick
draw_return ==
    /\ pc = "draw"
    /\ pc' = "loop"
    /\ IF reset_after_loop
       THEN LET d == _reset_variables
            IN  Store(d, data_stack,
                      Alloc(tf_lists, d.applied_transformations, <<>>),
                      Alloc(sf_lists, d.cumulative_scaling_factor, UnitScale))
       ELSE UNCHANGED <<data, data_stack, tf_lists, sf_lists>>
    /\ UNCHANGED <<raster, reset_after_loop, quitted, flag, frame_count, nops, called,
                   probe, loopvars, error, result>>

\* quit(), called by the user's code
quit ==
    /\ UserCall(<<"quit">>)
    /\ quitted' = TRUE
    /\ UNCHANGED <<data, data_stack, tf_lists, sf_lists, raster, reset_after_loop,
                   loopvars, error, result>>

\* the user's code assigns the attribute reset_after_loop
set_reset_after_loop(state) ==
    /\ UserCall(<<"reset_after_loop", state>>)
    /\ reset_after_loop' = state
    /\ UNCHANGED <<data, data_stack, tf_lists, sf_lists, raster, quitted,
                   loopvars, error, result>>

\* set_controls(...): the handlers named in registered are set, the others
\* become None
set_controls(registered) ==
    /\ UserCall(<<"set_controls", registered>>)
    /\ controls' = [h \in HandlerNames |-> h \in registered]
    /\ UNCHANGED <<data, data_stack, tf_lists, sf_lists, raster, reset_after_loop,
                   quitted, null_mode, mpc, events, batch, ran, error, result>>

----------------------------------------------------------------------------
(* The event loop of the main thread: _proto_draw and _ControlClass *)

\* the attribute of _ControlClass event_handler runs for an event type
HandlerOf(type) ==
    CASE type = "KEYDOWN" -> "key_down"
      [] type = "KEYUP" -> "key_up"
      [] type = "MOUSEMOTION" -> "mouse_motion"
      [] type = "MOUSEBUTTONUP" -> "mouse_button_up"
      [] type = "MOUSEBUTTONDOWN" -> "mouse_button_down"
      [] type = "MOUSEWHEEL" -> "mouse_wheel"
      [] OTHER -> "none"

\* the batches pygame.event.get() returns
Batches == UNION {[1..n -> EventTypes] : n \in 0..MaxBatch}

\* the test of the while loop of _proto_draw and, when it passes, the call of
\* event_handler on a new batch of events
event_loop ==
    /\ mpc = "poll"
    /\ IF quitted
       THEN mpc' = "exited" /\ UNCHANGED <<events, batch, ran>>
       ELSE \E polled \in Batches :
               /\ events' = polled
               /\ batch' = polled
               /\ ran' = <<>>
               /\ mpc' = "dispatch"
    /\ UNCHANGED <<data, data_stack, tf_lists, sf_lists, raster, reset_after_loop,
                   quitted, flag, frame_count, pc, nops, called, probe,
                   null_mode, controls, error, result>>

\* run(func, data) calls func: the handler of the event's type is not None
RunsWhatever(registered, type) == HandlerOf(type) # "none"
Runs(registered, type) == HandlerOf(type) # "none" /\ registered[HandlerOf(type)]

\* one iteration of the for loop of event_handler, up to the call of the
\* handler; batch is the list being iterated and ran the handlers called for
\* it so far
event_handler ==
    /\ mpc = "dispatch"
    /\ IF events = <<>>
       THEN mpc' = "poll" /\ UNCHANGED <<events, quitted, ran>>
       ELSE IF Head(events) = "QUIT"
       THEN quitted' = TRUE /\ events' = <<>> /\ mpc' = "poll" /\ UNCHANGED ran
       ELSE /\ events' = Tail(events)
            /\ IF Runs(controls, Head(events))
               THEN mpc' = "handler" /\ ran' = Append(ran, HandlerOf(Head(events)))
               ELSE mpc' = "dispatch" /\ UNCHANGED ran
            /\ UNCHANGED quitted
    /\ UNCHANGED batch
    /\ UNCHANGED <<data, data_stack, tf_lists, sf_lists, raster, reset_after_loop,
                   flag, frame_count, pc, nops, called, probe,
                   null_mode, controls, error, result>>

\* the handler returns to the for loop of event_handler
handler_return ==
    /\ mpc = "handler"
    /\ mpc' = "dispatch"
    /\ UNCHANGED <<data, data_stack, tf_lists, sf_lists, raster, reset_after_loop,
                   quitted, flag, frame_count, pc, nops, called, probe,
                   null_mode, events, controls, batch, ran, error, result>>

----------------------------------------------------------------------------
(* Direct calls of the coordinate functions on the current record *)

apply_coords(p) ==
    /\ pc = "setup"
    /\ probe.stage = "idle"
    /\ probe' = [probe EXCEPT
                    !.stage = "applied",
                    !.p = <<R(p[1]), R(p[2])>>,
                    !.f = _apply_transformations_coords(TfOf(_get_data_object),
                                                        R(p[1]), R(p[2]), FALSE)]
    /\ UNCHANGED <<data, data_stack, tf_lists, sf_lists, raster, reset_after_loop,
                   quitted, flag, frame_count, pc, nops, called,
                   loopvars, error, result>>

apply_length(s) ==
    /\ pc = "setup"
    /\ probe.stage = "idle"
    /\ probe' = [probe EXCEPT
                    !.stage = "measured",
                    !.p = <<R(s[1]), R(s[2])>>,
                    !.f = _apply_transformations_length(TfOf(_get_data_object),
                                                        R(s[1]), R(s[2]))]
    /\ UNCHANGED <<data, data_stack, tf_lists, sf_lists, raster, reset_after_loop,
                   quitted, flag, frame_count, pc, nops, called,
                   loopvars, error, result>>

\* a direct call of _get_rect_box (kind "rect") or _get_circle_box (kind
\* "circle"); the second call of a run resolves the result of the first with
\* the same size. The log keeps the arguments, the mode the function is keyed
\* on and the value returned.
get_box(kind, xy, wh, inverted) ==
    /\ pc = "setup"
    /\ probe.stage \in {"idle", "resolved"}
    /\ Len(probe.log) < MaxResolutions
    /\ probe.log # <<>> =>
           /\ xy = probe.log[Len(probe.log)].out
           /\ wh = probe.log[Len(probe.log)].wh
    /\ LET d == _get_data_object
       IN  probe' = [probe EXCEPT
                        !.stage = "resolved",
                        !.log = Append(@,
                            [kind |-> kind,
                             mode |-> IF kind = "rect" THEN d.current_rect_mode
                                                       ELSE d.current_circle_mode,
                             xy |-> xy, wh |-> wh, inverted |-> inverted,
                             out |-> IF kind = "rect"
                                     THEN _get_rect_box(d, xy[1], xy[2], wh[1], wh[2],
                                                        inverted)
                                     ELSE _get_circle_box(d, xy[1], xy[2], wh[1], wh[2],
                                                          inverted)])]
    /\ UNCHANGED <<data, data_stack, tf_lists, sf_lists, raster, reset_after_loop,
                   quitted, flag, frame_count, pc, nops, called,
                   loopvars, error, result>>

\* the positions a direct call of a box function may be given
BoxPositions ==
    {<<R(p[1]), R(p[2])>> : p \in ProbePoints}
        \cup {probe.log[i].out : i \in 1..Len(probe.log)}
BoxSizes == {<<R(s[1]), R(s[2])>> : s \in ProbeSizes}

undo_coords ==
    /\ pc = "setup"
    /\ probe.stage = "applied"
    /\ probe' = [probe EXCEPT
                    !.stage = "undone",
                    !.b = _undo_transformations_coords(TfOf(_get_data_object),
                                                       probe.f[1], probe.f[2])]
    /\ UNCHANGED <<data, data_stack, tf_lists, sf_lists, raster, reset_after_loop,
                   quitted, flag, frame_count, pc, nops, called,
                   loopvars, error, result>>

----------------------------------------------------------------------------
(* Specifications *)

StyleOp ==
    \/ \E m \in ModeNames : rect_mode(m)
    \/ \E m \in ModeNames : circle_mode(m)
    \/ \E c \in Colors : fill(c)
    \/ no_fill
    \/ \E c \in Colors : stroke(c)
    \/ no_stroke
    \/ \E w \in Weights : stroke_weight(w)
    \/ \E b \in BOOLEAN : set_account_for_transformations(b)

TransformOp ==
    \/ \E a \in Angles : rotate(a)
    \/ \E s \in Scales : scale(s[1], s[2])
    \/ \E t \in Translations : translate(t[1], t[2])

ResetOp ==
    \/ reset_transformations
    \/ reset_scaling
    \/ reset_translation
    \/ reset_rotation

DrawOp ==
    \/ \E p \in Points : point(p[1], p[2])
    \/ \E b \in Boxes : ellipse(b[1], b[2], b[3], b[4])
    \/ \E p \in Points, r \in Radii : circle(p[1], p[2], r)

ShapeOp ==
    \/ \E b \in Boxes : rect(b[1], b[2], b[3], b[4])
    \/ \E p \in Points, side \in Sides : square(p[1], p[2], side)
    \/ \E points \in Polygons : polygon(points)
    \/ \E p \in Points, q \in Points : line(p[1], p[2], q[1], q[2])
    \/ \E t \in Polygons : triangle(t[1][1], t[1][2], t[2][1], t[2][2], t[3][1], t[3][2])

ImageOp ==
    \/ \E img_size \in ImageSizes, p \in Points, x2 \in OptionalX, y2 \in OptionalY :
          image(img_size, p[1], p[2], x2, y2)
    \/ \E img_size \in ImageSizes, p \in Points, width \in OptionalWidths,
          height \in OptionalHeights :
          image_sized(img_size, p[1], p[2], width, height)

Driver ==
    \/ start
    \/ setup_return
    \/ repeat
    \/ draw_return
    \/ quit
    \/ \E b \in BOOLEAN : set_reset_after_loop(b)

\* the state records under the calls of setup() and draw() and the frame driver
Next ==
    \/ StyleOp
    \/ TransformOp
    \/ ResetOp
    \/ push
    \/ pop
    \/ Driver

Spec == Init /\ [][Next]_vars

\* the drawing primitives under the calls that set up what they read
NextDraw ==
    \/ start
    \/ StyleOp
    \/ TransformOp
    \/ DrawOp

SpecDraw == Init /\ [][NextDraw]_vars

NextImage ==
    \/ start
    \/ TransformOp
    \/ \E m \in ModeNames : rect_mode(m)
    \/ \E p \in Points : point(p[1], p[2])
    \/ \E string \in TextStrings, p \in Points : text(string, p[1], p[2])
    \/ ImageOp

SpecImage == Init /\ [][NextImage]_vars

\* the shape primitives under the transformations and the rect mode
NextShapes ==
    \/ start
    \/ TransformOp
    \/ \E m \in ModeNames : rect_mode(m)
    \/ ShapeOp

SpecShapes == Init /\ [][NextShapes]_vars

\* the coordinate functions called on the records the transformations build
NextCoords ==
    \/ start
    \/ TransformOp
    \/ \E b \in BOOLEAN : set_account_for_transformations(b)
    \/ \E pos \in MousePositions : mouse_pos(pos)
    \/ \E s \in ProbeSizes : apply_length(s)
    \/ \E p \in ProbePoints : apply_coords(p)
    \/ undo_coords

SpecCoords == InitEitherMode /\ [][NextCoords]_vars

\* the timer thread and the event loop, with the calls setup(), draw() and the
\* handlers make
NextLoop ==
    \/ start
    \/ setup_return
    \/ repeat
    \/ draw_return
    \/ event_loop
    \/ event_handler
    \/ handler_return
    \/ quit
    \/ \E registered \in ControlSets : set_controls(registered)
    \/ \E c \in Colors : fill(c)

NextAnchor ==
    \/ start
    \/ \E mode \in ModeNames : rect_mode(mode)
    \/ \E mode \in ModeNames : circle_mode(mode)
    \/ push
    \/ pop
    \/ \E kind \in {"rect", "circle"}, xy \in BoxPositions, wh \in BoxSizes,
          inverted \in BOOLEAN : get_box(kind, xy, wh, inverted)

SpecAnchor == Init /\ [][NextAnchor]_vars

SpecLoop == InitEitherMode /\ [][NextLoop]_vars

\* both threads keep running and the callbacks return
SpecLoopFair ==
    /\ SpecLoop
    /\ WF_vars(setup_return)
    /\ WF_vars(repeat)
    /\ WF_vars(draw_return)
    /\ WF_vars(event_loop)
    /\ WF_vars(event_handler)
    /\ WF_vars(handler_return)

----------------------------------------------------------------------------
(* Vocabulary of the properties *)

Min(a, b) == IF a < b THEN a ELSE b

\* the records from the base record (index 1) up to the current one (last)
Records == <<data>> \o data_stack
RecordsNext == <<data'>> \o data_stack'

\* a record with its two lists in place of their addresses
DeepOf(rec, tf, sf) ==
    [rec EXCEPT !.applied_transformations = tf[@],
                !.cumulative_scaling_factor = sf[@]]
Deep(i) == DeepOf(Records[i], tf_lists, sf_lists)
DeepNext(i) == DeepOf(RecordsNext[i], tf_lists', sf_lists')
DeepCurrent == Deep(Len(Records))

\* a freshly constructed record
DefaultDeep == DeepOf(_SimulationData(1, 1), <<<<>>>>, <<UnitScale>>)

\* the step is a call of the API
IsCall == nops' # nops

\* the records that exist before and after the step and are not the record
\* the step's call acts on: those below the current one, and the current one
\* itself when the step pushes a copy on top of it
Untouched ==
    {i \in 1..Min(Len(Records), Len(RecordsNext)) :
        i < Len(Records) \/ Len(RecordsNext) > Len(Records)}

RECURSIVE SumOfRotations(_)
SumOfRotations(tfs) ==
    IF tfs = <<>> THEN 0
    ELSE (IF Head(tfs)[1] = ROT THEN Head(tfs)[2] ELSE 0) + SumOfRotations(Tail(tfs))

RECURSIVE ProductOfScales(_)
ProductOfScales(tfs) ==
    IF tfs = <<>> THEN UnitScale
    ELSE LET rest == ProductOfScales(Tail(tfs))
         IN  IF Head(tfs)[1] = SCL
             THEN <<RMul(Head(tfs)[2][1], rest[1]), RMul(Head(tfs)[2][2], rest[2])>>
             ELSE rest

----------------------------------------------------------------------------
(* Properties *)

\* C1: push/pop isolation.  No call changes a record below the current one,
\* push leaves the record it copies as it was and pop leaves the record it
\* uncovers as it was; hence the record current after a pop equals, field for
\* field and list for list, the record that was current before the matching push.
PushPopIsolation ==
    [][IsCall => \A i \in Untouched : DeepNext(i) = Deep(i)]_vars

\* C2: inverse correctness.  _undo_transformations_coords applied to the
\* result of _apply_transformations_coords (rotation not skipped) on a point
\* returns the point, for every sequence of accepted operations.
InverseCorrectness ==
    probe.stage = "undone" => probe.b = probe.p

\* C2 witness: a point moved by a sequence with all three kinds of operation
\* has been mapped forward and back
InverseWitness ==
    /\ probe.stage = "undone"
    /\ probe.p = <<R(3), R(-7)>>
    /\ probe.f # probe.p
    /\ {TfOf(data)[i][1] : i \in 1..Len(TfOf(data))} = {ROT, TRA, SCL}

\* C3: cached aggregates.  In every record the cumulative rotation angle is
\* the sum of the angles of its Rotate operations and the cumulative scaling
\* factor the per-axis product of the factors of its Scale operations.
CachedAggregatesConsistent ==
    \A i \in 1..Len(Records) :
        /\ Deep(i).cumulative_rotation_angle =
               SumOfRotations(Deep(i).applied_transformations)
        /\ Deep(i).cumulative_scaling_factor =
               ProductOfScales(Deep(i).applied_transformations)

\* C4: copy-on-push of the transformation sequence.  No two records hold the
\* same list object, and no call changes the sequence of a record other than
\* the one it acts on.
NoSharedSequence ==
    \A i, j \in 1..Len(Records) :
        i # j => Records[i].applied_transformations # Records[j].applied_transformations

CopyOnPush ==
    [][/\ NoSharedSequence'
       /\ IsCall => \A i \in Untouched :
              DeepNext(i).applied_transformations = Deep(i).applied_transformations]_vars

\* C4 witness: the sequence of a pushed record has been changed and differs
\* from the sequence of the record below it
CopyOnPushWitness ==
    /\ Len(data_stack) = 1
    /\ called[1] \in {"rotate", "scale", "translate"}
    /\ TfOf(data_stack[1]) # TfOf(data)

\* the calls translate(50, 50), rotate(90), point(0, 0) have been made, in
\* this order, from the default state
EndToEndScenario ==
    /\ nops = 3
    /\ called = <<"point", 0, 0>>
    /\ data_stack = <<>>
    /\ TfOf(data) = << <<TRA, <<50, 50>>>>, <<ROT, 90>> >>

\* C5 as stated: the point of the end-to-end scenario is issued at (50, 50).
EndToEndPointAt5050 ==
    EndToEndScenario => raster[1] = "point" /\ raster[2] = <<R(50), R(50)>>

\* C5 as amended: the point of the end-to-end scenario is issued at (-50, 50),
\* the translated point (50, 50) rotated by 90 degrees about the origin.
EndToEndPointRotated ==
    EndToEndScenario => raster[1] = "point" /\ raster[2] = <<R(-50), R(50)>>

\* C5 witness
EndToEndWitness == EndToEndScenario /\ raster[1] = "point"

\* the last call is ellipse or circle, made with an empty transformation sequence
EllipseCalledUntransformed ==
    /\ called[1] \in {"ellipse", "circle"}
    /\ TfOf(_get_data_object) = <<>>

\* the centre-or-corner point and the size the last ellipse or circle call gave
EllipseXY == <<R(called[2]), R(called[3])>>
EllipseSize ==
    IF called[1] = "circle"
    THEN <<R(2 * called[4]), R(2 * called[4])>>
    ELSE <<R(called[4]), R(called[5])>>

\* C6: with an empty transformation sequence, circle and ellipse issue a box
\* centred on (x, y) in circle mode CENTER and a box with top-left corner
\* (x, y) in circle mode TOP_LEFT.
EllipseBoxAnchored ==
    EllipseCalledUntransformed =>
        /\ raster[1] = "ellipse"
        /\ raster[2] =
               IF _get_data_object.current_circle_mode = CENTER
               THEN <<RSub(EllipseXY[1], RHalf(EllipseSize[1])),
                      RSub(EllipseXY[2], RHalf(EllipseSize[2]))>>
               ELSE EllipseXY

\* C7: frame reset.  With reset_after_loop on, when a draw() has returned the
\* record the next draw() starts with equals a freshly constructed record.
FrameStartsFromDefaults ==
    (pc = "loop" /\ frame_count >= 1 /\ reset_after_loop) =>
        DeepCurrent = DefaultDeep

\* C8: pop() on an empty state stack changes nothing; on a non-empty stack it
\* removes the top record and nothing else.
PopContract ==
    [][(IsCall /\ called' = <<"pop">>) =>
          IF data_stack = <<>>
          THEN UNCHANGED <<data, data_stack, tf_lists, sf_lists>>
          ELSE /\ data' = data
               /\ data_stack' = SubSeq(data_stack, 1, Len(data_stack) - 1)
               /\ \A i \in 1..Len(RecordsNext) : DeepNext(i) = Deep(i)]_vars

\* C8 witness: pop() was called on the empty stack of the initial state
PopOnEmptyWitness ==
    /\ called = <<"pop">>
    /\ nops = 1
    /\ data_stack = <<>>
    /\ DeepCurrent = DefaultDeep

\* C9: scale() with a zero factor leaves the records and their lists unchanged.
ZeroScaleRejected ==
    [][(IsCall /\ called'[1] = "scale" /\ (called'[2] = R(0) \/ called'[3] = R(0))) =>
          UNCHANGED <<data, data_stack, tf_lists, sf_lists>>]_vars

\* C9 witness: scale(0, 5) was called on a record that has a Scale operation
ZeroScaleWitness ==
    /\ called = <<"scale", R(0), R(5)>>
    /\ \E i \in 1..Len(TfOf(_get_data_object)) : TfOf(_get_data_object)[i][1] = SCL

\* C10: the forward replay composes in call order on the running coordinate:
\* [translate(10,0), rotate(90)] maps (0,0) to (0,10) and
\* [rotate(90), translate(10,0)] maps (0,0) to (10,0).
ForwardComposesInCallOrder ==
    (probe.stage # "idle" /\ probe.p = <<R(0), R(0)>>) =>
        /\ TfOf(data) = << <<TRA, <<10, 0>>>>, <<ROT, 90>> >>
               => probe.f = <<R(0), R(10)>>
        /\ TfOf(data) = << <<ROT, 90>>, <<TRA, <<10, 0>>>> >>
               => probe.f = <<R(10), R(0)>>

\* C10 witness: the origin has been mapped through [translate(10,0), rotate(90)]
ForwardOrderWitness ==
    /\ probe.stage = "applied"
    /\ probe.p = <<R(0), R(0)>>
    /\ TfOf(data) = << <<TRA, <<10, 0>>>>, <<ROT, 90>> >>
    /\ probe.f = <<R(0), R(10)>>

\* C11: at most one frame callback at a time.  A frame is started only by
\* the timer thread standing at the top of its loop, that is when no draw()
\* is in progress, and a tick starts exactly one frame.
FramesDoNotOverlap ==
    [][frame_count' # frame_count =>
          /\ pc = "loop"
          /\ pc' = "draw"
          /\ frame_count' = frame_count + 1]_vars

\* C11 witness: the second draw() is in progress, the first one has returned
SecondFrameWitness == pc = "draw" /\ frame_count = 2

\* C12: cancellation.  Once quitted is set the timer thread terminates and
\* the event loop of start() exits.
QuitTerminates == quitted ~> (pc = "stopped" /\ mpc = "exited")

\* C12 witness: in window mode, after a QUIT event during a run that drew a
\* frame, the timer thread has terminated and the event loop has exited
QuitTerminatesWitness ==
    /\ ~null_mode
    /\ quitted
    /\ nops = 0
    /\ frame_count >= 1
    /\ pc = "stopped"
    /\ mpc = "exited"

\* C13: no handler runs while a draw() callback is in progress.
HandlersExcludeDraw == ~(mpc = "handler" /\ pc = "draw")

\* the raw position of the last call, a call of mouse_pos()
RawPosition == <<called[2], called[3]>>

\* the raw position mapped back through the transformation sequence of the
\* current record: the operations in reverse order, each inverted
InverseOfRaw ==
    LET tfs == TfOf(_get_data_object)
        back == UndoLoop(Reversed(tfs), 1, <<R(RawPosition[1]), R(RawPosition[2])>>)
    IN  <<Trunc(back[1]), Trunc(back[2])>>

\* what C14 says mouse_pos() returns
PointerQueryValue ==
    IF _get_data_object.account_for_transformations THEN InverseOfRaw ELSE RawPosition

\* C14 as stated: mouse_pos() returns the raw coordinates when the flag is off
\* and their truncated inverse image when it is on.
PointerQuery ==
    called[1] = "mouse_pos" => result = PointerQueryValue

\* C14 as amended: so it is in window mode; in null mode mouse_pos() returns
\* (0, 0) whatever the flag.
PointerQueryWindowMode ==
    called[1] = "mouse_pos" =>
        result = IF null_mode THEN <<0, 0>> ELSE PointerQueryValue

\* C14 witness: in window mode, with the flag on and a Scale operation in the
\* sequence, mouse_pos() returned a position other than the raw one
PointerQueryWitness ==
    /\ ~null_mode
    /\ called[1] = "mouse_pos"
    /\ _get_data_object.account_for_transformations
    /\ \E i \in 1..Len(TfOf(_get_data_object)) : TfOf(_get_data_object)[i][1] = SCL
    /\ result # RawPosition

\* the sequence tfs rearranged by the permutation perm of its indices
Rearranged(tfs, perm) == [i \in 1..Len(tfs) |-> tfs[perm[i]]]

\* the Scale operations of tfs, in order
ScalesOnly(tfs) == SelectSeq(tfs, LAMBDA t : t[1] = SCL)

\* C15: a length pair is mapped to itself times the per-axis product of the
\* Scale factors of the sequence; the result is the same for every
\* rearrangement of the sequence and with the Translate and Rotate operations
\* removed; [scale(2,3), scale(4,1)] maps (10, 10) to (80, 30) in either order.
LengthsOnlyScaled ==
    probe.stage = "measured" =>
        LET tfs == TfOf(_get_data_object)
            product == ProductOfScales(tfs)
        IN  /\ probe.f = <<RMul(probe.p[1], product[1]), RMul(probe.p[2], product[2])>>
            /\ \A perm \in Permutations(1..Len(tfs)) :
                   _apply_transformations_length(Rearranged(tfs, perm),
                                                 probe.p[1], probe.p[2]) = probe.f
            /\ _apply_transformations_length(ScalesOnly(tfs),
                                             probe.p[1], probe.p[2]) = probe.f
            /\ (/\ probe.p = <<R(10), R(10)>>
                /\ ScalesOnly(tfs) \in {<<<<SCL, <<R(2), R(3)>>>>, <<SCL, <<R(4), R(1)>>>>>>,
                                        <<<<SCL, <<R(4), R(1)>>>>, <<SCL, <<R(2), R(3)>>>>>>})
               => probe.f = <<R(80), R(30)>>

\* C15 witness: (10, 10) was measured as (80, 30) under scale(4,1), scale(2,3)
\* with a Translate or Rotate operation in the sequence
LengthsWitness ==
    /\ probe.stage = "measured"
    /\ probe.p = <<R(10), R(10)>>
    /\ probe.f = <<R(80), R(30)>>
    /\ ScalesOnly(TfOf(_get_data_object)) =
           <<<<SCL, <<R(4), R(1)>>>>, <<SCL, <<R(2), R(3)>>>>>>
    /\ Len(TfOf(_get_data_object)) = 3

\* the table of C16: the position a box function returns for the mode it is
\* keyed on
AnchorTable(mode, xy, wh, inverted) ==
    CASE mode = TOP_LEFT /\ ~inverted -> xy
      [] mode = TOP_LEFT /\ inverted  -> <<RAdd(xy[1], RHalf(wh[1])),
                                           RAdd(xy[2], RHalf(wh[2]))>>
      [] mode = CENTER /\ ~inverted   -> <<RSub(xy[1], RHalf(wh[1])),
                                           RSub(xy[2], RHalf(wh[2]))>>
      [] mode = CENTER /\ inverted    -> xy

\* C16: every call of _get_rect_box and of _get_circle_box returns the entry of
\* the table for the rect mode, respectively the circle mode, of the current
\* record and for the inverted argument.
AnchorResolutionTable ==
    \A i \in 1..Len(probe.log) :
        LET e == probe.log[i]
        IN  e.out = AnchorTable(e.mode, e.xy, e.wh, e.inverted)

\* C16 witness: _get_circle_box was called with inverted = true in mode
\* TOP_LEFT while the rect mode was CENTER, and returned a shifted position
AnchorTableWitness ==
    /\ Len(probe.log) = 1
    /\ probe.log[1].kind = "circle"
    /\ probe.log[1].mode = TOP_LEFT
    /\ probe.log[1].inverted
    /\ _get_data_object.current_rect_mode = CENTER
    /\ probe.log[1].out # probe.log[1].xy

\* C17: a position resolved in mode CENTER with inverted = false and then, with
\* the same size, in mode TOP_LEFT with inverted = true is the original one.
AnchorResolutionSymmetry ==
    \A i \in 1..(Len(probe.log) - 1) :
        LET first == probe.log[i]
            second == probe.log[i + 1]
        IN  (/\ first.mode = CENTER
             /\ ~first.inverted
             /\ second.mode = TOP_LEFT
             /\ second.inverted
             /\ second.xy = first.out
             /\ second.wh = first.wh)
            => second.out = first.xy

\* C17 witness: _get_rect_box resolved (3, -7) with the odd size (3, 7) in mode
\* CENTER, then its result in mode TOP_LEFT inverted
AnchorSymmetryWitness ==
    /\ Len(probe.log) = 2
    /\ probe.log[1].kind = "rect"
    /\ probe.log[2].kind = "rect"
    /\ probe.log[1].mode = CENTER
    /\ ~probe.log[1].inverted
    /\ probe.log[1].xy = <<R(3), R(-7)>>
    /\ probe.log[1].wh = <<R(3), R(7)>>
    /\ probe.log[1].out = <<<<3, 2>>, <<-21, 2>>>>
    /\ probe.log[2].mode = TOP_LEFT
    /\ probe.log[2].inverted
    /\ probe.log[2].out = <<R(3), R(-7)>>

\* the last call was rect_mode or circle_mode with a name that is no anchor mode
UnrecognizedModeCalled(c) ==
    /\ c[1] \in {"rect_mode", "circle_mode"}
    /\ c[2] \notin {"TOP_LEFT", "CENTER"}

\* C18: rect_mode and circle_mode with an unrecognized name raise an error in
\* the call itself, which does not return to its caller, and leave every
\* record, the current one included, as it was.
UnrecognizedModeFails ==
    [][(IsCall /\ UnrecognizedModeCalled(called')) =>
          /\ error = "none"
          /\ error' # "none"
          /\ pc' = "died" \/ mpc' = "died"
          /\ Len(RecordsNext) = Len(Records)
          /\ \A i \in 1..Len(Records) : DeepNext(i) = Deep(i)]_vars

\* C18 witness: circle_mode("CORNER") failed on a pushed record whose anchor
\* modes had been changed, and they are as they were set
UnrecognizedModeWitness ==
    /\ called = <<"circle_mode", "CORNER">>
    /\ error = "KeyError"
    /\ Len(data_stack) = 1
    /\ data_stack[1].current_circle_mode = TOP_LEFT
    /\ data.current_circle_mode = CENTER

\* the anchor mode a name stands for
ModeNamed(name) == IF name = "TOP_LEFT" THEN TOP_LEFT ELSE CENTER

\* C20: rect_mode sets current_rect_mode of the current record to the named
\* mode and changes nothing else in it, circle_mode does so with
\* current_circle_mode, and neither changes a record below the current one.
AnchorModesIndependent ==
    [][(IsCall /\ called'[1] \in {"rect_mode", "circle_mode"}) =>
          /\ Len(RecordsNext) = Len(Records)
          /\ \A i \in 1..(Len(Records) - 1) : DeepNext(i) = Deep(i)
          /\ LET after == DeepNext(Len(Records))
                 named == called'[2] \in {"TOP_LEFT", "CENTER"}
             IN  IF called'[1] = "rect_mode"
                 THEN /\ after = [DeepCurrent EXCEPT
                                     !.current_rect_mode = after.current_rect_mode]
                      /\ named => after.current_rect_mode = ModeNamed(called'[2])
                 ELSE /\ after = [DeepCurrent EXCEPT
                                     !.current_circle_mode = after.current_circle_mode]
                      /\ named => after.current_circle_mode = ModeNamed(called'[2])]_vars

\* C20 witness: on a pushed record circle_mode("TOP_LEFT") and then
\* rect_mode("CENTER") were called: the two modes differ from each other and
\* from those of the base record, which kept its defaults
AnchorModesWitness ==
    /\ called = <<"rect_mode", "CENTER">>
    /\ Len(data_stack) = 1
    /\ data_stack[1].current_rect_mode = CENTER
    /\ data_stack[1].current_circle_mode = TOP_LEFT
    /\ data.current_rect_mode = TOP_LEFT
    /\ data.current_circle_mode = CENTER

\* the target size C19 speaks of, for the call c of image() or image_sized()
\* in the current state: the size asked for times the Scale factors
TargetSize(c) ==
    LET product == ProductOfScales(TfOf(_get_data_object))
        img_size == c[2]
        asked == IF c[1] = "image"
                 THEN IF c[5] = <<>> \/ c[6] = <<>>
                      THEN img_size
                      ELSE <<c[5][1] - c[3], c[6][1] - c[4]>>
                 ELSE <<IF c[5] = <<>> THEN img_size[1] ELSE c[5][1],
                        IF c[6] = <<>> THEN img_size[2] ELSE c[6][1]>>
    IN  <<RMul(R(asked[1]), product[1]), RMul(R(asked[2]), product[2])>>

\* C19: a call of image() or image_sized() whose target width or height is
\* zero raises no error and issues nothing to the rasterizer.
ZeroSizeImageDrawsNothing ==
    [][(/\ IsCall
        /\ called'[1] \in {"image", "image_sized"}
        /\ R(0) \in {TargetSize(called')[1], TargetSize(called')[2]})
       => (raster' = raster /\ error' = "none")]_vars

\* C19 witness: after a scale and a point that was drawn, image_sized() was
\* called with width 0 for an image of non-zero size, and the point is still
\* the last command issued
ZeroSizeImageWitness ==
    /\ called[1] = "image_sized"
    /\ called[2] = <<4, 2>>
    /\ called[5] = <<0>>
    /\ called[6] = <<3>>
    /\ ProductOfScales(TfOf(_get_data_object)) # UnitScale
    /\ raster[1] = "point"
    /\ error = "none"

\* the kind of operation a selective reset is about
KindOfReset(name) ==
    CASE name = "reset_rotation" -> ROT
      [] name = "reset_scaling" -> SCL
      [] name = "reset_translation" -> TRA

\* tfs with the operations of the given kind taken out, the others in place
RECURSIVE WithoutKind(_, _)
WithoutKind(tfs, kind) ==
    IF tfs = <<>> THEN <<>>
    ELSE IF Head(tfs)[1] = kind THEN WithoutKind(Tail(tfs), kind)
    ELSE <<Head(tfs)>> \o WithoutKind(Tail(tfs), kind)

\* C21: reset_rotation, reset_scaling and reset_translation leave in the
\* sequence of the current record the operations of the other two kinds, in
\* their order, and none of their own kind; the records below the current one
\* are unchanged.
SelectiveReset ==
    [][(IsCall /\ called'[1] \in {"reset_rotation", "reset_scaling",
                                  "reset_translation"}) =>
          /\ Len(RecordsNext) = Len(Records)
          /\ \A i \in 1..(Len(Records) - 1) : DeepNext(i) = Deep(i)
          /\ DeepNext(Len(Records)).applied_transformations =
                 WithoutKind(DeepCurrent.applied_transformations,
                             KindOfReset(called'[1]))]_vars

\* C21 witness: after scale on the base record and push, reset_scaling emptied
\* the sequence of the pushed record and the base record kept its Scale
SelectiveResetWitness ==
    /\ called = <<"reset_scaling">>
    /\ nops = 3
    /\ Len(data_stack) = 1
    /\ Len(TfOf(data)) = 1
    /\ TfOf(data)[1][1] = SCL
    /\ TfOf(data_stack[1]) = <<>>

\* the record rec (lists in place) has no transformation: empty sequence,
\* cumulative rotation 0, cumulative scale (1, 1), and the three coordinate
\* functions are the identity on it
NoTransformation(rec) ==
    /\ rec.applied_transformations = <<>>
    /\ rec.cumulative_rotation_angle = 0
    /\ rec.cumulative_scaling_factor = UnitScale
    /\ \A p \in ProbePoints :
          LET xy == <<R(p[1]), R(p[2])>>
              tfs == rec.applied_transformations
          IN  /\ _apply_transformations_coords(tfs, xy[1], xy[2], FALSE) = xy
              /\ _apply_transformations_length(tfs, xy[1], xy[2]) = xy
              /\ _undo_transformations_coords(tfs, xy[1], xy[2]) = xy

\* the fields C22 says a full reset leaves alone
StyleOf(rec) ==
    <<rec.stroke_state, rec.current_stroke_color, rec.fill_state,
      rec.current_fill_color, rec.current_stroke_weight,
      rec.current_rect_mode, rec.current_circle_mode>>

\* C22: reset_transformations leaves the current record without transformation
\* and with its stroke, fill, weight and anchor modes as they were; the record
\* stays without transformation over every later step on it that is not a call
\* of rotate, scale or translate.
FullReset ==
    [][/\ (IsCall /\ called'[1] = "reset_transformations") =>
             /\ Len(RecordsNext) = Len(Records)
             /\ NoTransformation(DeepNext(Len(Records)))
             /\ StyleOf(DeepNext(Len(Records))) = StyleOf(DeepCurrent)
       /\ (/\ NoTransformation(DeepCurrent)
           /\ Len(RecordsNext) = Len(Records)
           /\ ~(IsCall /\ called'[1] \in {"rotate", "scale", "translate"}))
          => NoTransformation(DeepNext(Len(Records)))]_vars

\* C22 witness: after scale on the base record and push, reset_transformations
\* on the pushed record: it has no transformation while the base record has
\* its Scale
FullResetWitness ==
    /\ called = <<"reset_transformations">>
    /\ nops = 3
    /\ Len(data_stack) = 1
    /\ Len(TfOf(data)) = 1
    /\ SfOf(data) # UnitScale
    /\ TfOf(data_stack[1]) = <<>>
    /\ SfOf(data_stack[1]) = UnitScale
    /\ data_stack[1].cumulative_rotation_angle = 0

\* the corners of the shape in the last command issued, a polygon or a
\* rectangle
IssuedCorners ==
    IF raster[1] = "polygon"
    THEN {raster[2][i] : i \in 1..Len(raster[2])}
    ELSE {<<raster[2][1], raster[2][2]>>, <<raster[3][1], raster[2][2]>>,
          <<raster[3][1], raster[3][2]>>, <<raster[2][1], raster[3][2]>>}

\* the four corners of the box of the last call, a call of rect, resolved with
\* the rect mode of the current record
BoxCorners ==
    LET d == _get_data_object
        x == R(called[2])
        y == R(called[3])
        w == R(called[4])
        h == R(called[5])
        pos == AnchorTable(d.current_rect_mode, <<x, y>>, <<w, h>>, FALSE)
    IN  {pos, <<RAdd(pos[1], w), pos[2]>>,
         <<RAdd(pos[1], w), RAdd(pos[2], h)>>, <<pos[1], RAdd(pos[2], h)>>}

\* C23: the corners rect() issues are the images of the four corners of the
\* anchor-resolved box under the replay of the whole sequence, rotations
\* included.
RectAgreesWithForward ==
    called[1] = "rect" =>
        IssuedCorners =
            {ApplyLoop(TfOf(_get_data_object), 1, c, FALSE) : c \in BoxCorners}

\* the drawing primitives
Primitives ==
    {"point", "line", "rect", "square", "triangle", "polygon", "circle", "ellipse",
     "text", "image", "image_sized"}

\* C24: a call of a drawing primitive leaves every record, the current one
\* included, with every field as it was.
PrimitivesKeepState ==
    [][(IsCall /\ called'[1] \in Primitives) =>
          /\ Len(RecordsNext) = Len(Records)
          /\ \A i \in 1..Len(Records) : DeepNext(i) = Deep(i)]_vars

\* C25: the tick that finds quitted set (the step that sets the timer's flag)
\* starts no draw(), counts no frame and resets no record; and once quitted is
\* set no draw() starts and no frame is counted, so that only a draw() already
\* running then completes.
NoFrameAfterQuit ==
    [][/\ flag' # flag =>
             /\ quitted
             /\ pc' = "loop"
             /\ frame_count' = frame_count
             /\ <<data, data_stack, tf_lists, sf_lists>>' =
                    <<data, data_stack, tf_lists, sf_lists>>
       /\ (quitted \/ flag) =>
             /\ frame_count' = frame_count
             /\ pc' = "draw" => pc = "draw"]_vars

\* C25 witness: a tick found quitted set after one frame, with a further frame
\* still possible
NoFrameAfterQuitWitness ==
    /\ quitted
    /\ flag
    /\ pc = "loop"
    /\ frame_count = 1
    /\ frame_count < MaxFrames

\* a is b with some elements left out
RECURSIVE IsSubsequence(_, _)
IsSubsequence(a, b) ==
    IF a = <<>> THEN TRUE
    ELSE IF b = <<>> THEN FALSE
    ELSE IF Head(a) = Head(b) THEN IsSubsequence(Tail(a), Tail(b))
    ELSE IsSubsequence(a, Tail(b))

\* the events of a list that come before its first QUIT event
RECURSIVE BeforeQuit(_)
BeforeQuit(list) ==
    IF list = <<>> \/ Head(list) = "QUIT" THEN <<>>
    ELSE <<Head(list)>> \o BeforeQuit(Tail(list))

\* the handlers of the types of a list of events, in its order
HandlersOf(list) == [i \in 1..Len(list) |-> HandlerOf(list[i])]

\* the events of the batch the for loop of event_handler has gone through
Consumed == SubSeq(batch, 1, Len(batch) - Len(events))

\* C26: while a batch is dispatched the events left are the rest of the batch,
\* and the handlers run for it are, in order, handlers of the events gone
\* through, none of them at or after the first QUIT event; a step of the loop
\* on an event other than QUIT takes the first event left and runs the handler
\* of its type exactly if one is registered; the step on a QUIT event sets
\* quitted, runs nothing and leaves the loop with the rest of the batch dropped.
DispatchInOrder ==
    /\ [](/\ mpc \in {"dispatch", "handler"} =>
                /\ Len(events) <= Len(batch)
                /\ events = SubSeq(batch, Len(batch) - Len(events) + 1, Len(batch))
                /\ IsSubsequence(ran, HandlersOf(Consumed))
          /\ IsSubsequence(ran, HandlersOf(BeforeQuit(batch))))
    /\ [][(mpc = "dispatch" /\ events # <<>> /\ mpc' # "died") =>
             IF mpc' = "dispatch" /\ events' = events /\ ran' = ran
             THEN TRUE
             ELSE IF Head(events) = "QUIT"
             THEN quitted' /\ mpc' = "poll" /\ ran' = ran /\ events' = <<>>
             ELSE /\ events' = Tail(events)
                  /\ IF controls[HandlerOf(Head(events))]
                     THEN mpc' = "handler" /\ ran' = Append(ran, HandlerOf(Head(events)))
                     ELSE mpc' = "dispatch" /\ ran' = ran]_vars
    /\ [][mpc' = "handler" => mpc \in {"dispatch", "handler"}]_vars

\* C26 witness: in the batch QUIT, KEYDOWN with a key_down handler registered
\* the loop was left on the QUIT event and the handler was not run
DispatchWitness ==
    /\ batch = <<"QUIT", "KEYDOWN">>
    /\ controls["key_down"]
    /\ ran = <<>>
    /\ events = <<>>
    /\ quitted
    /\ mpc = "exited"

====
